---- MODULE Spec2Model ----
(***************************************************************************)
(* SoftSell landing page (src/src/App.jsx).                                *)
(*                                                                         *)
(* Two React components hold state:                                        *)
(*   Chatbot : isOpen, messages, input, and the one-shot 600 ms timers     *)
(*             handleSend schedules (pending);                             *)
(*   App     : theme, showToast, formData, and the one-shot 3000 ms timers *)
(*             handleSubmit schedules (toastTimers).                       *)
(* The two components share no state, so each is explored by its own       *)
(* specification: Spec / FairSpec for the chatbot, SpecApp / FairSpecApp   *)
(* for the page.                                                           *)
(*                                                                         *)
(* A JavaScript string is the sequence of its UTF-16 code units, so that    *)
(* trim, toLowerCase and includes are computed on the text itself.         *)
(***************************************************************************)
EXTENDS Integers, Sequences, FiniteSets

VARIABLES isOpen, messages, input, pending,
          theme, showToast, formData, toastTimers, sinceSubmit,
          lastEvent

chatVars == <<isOpen, messages, input, pending>>
appVars  == <<theme, showToast, formData, toastTimers, sinceSubmit>>
vars     == <<isOpen, messages, input, pending,
              theme, showToast, formData, toastTimers, sinceSubmit, lastEvent>>

(***************************************************************************)
(* Bounds of the exploration.                                              *)
(***************************************************************************)
\* accepted chat submissions explored per session
MaxUserTurns == 2
\* contact-form hide timers that may be pending together
MaxToastTimers == 2
\* granularity, in ms, of the passage of time between page events
TickStep == 1000

(***************************************************************************)
(* Program constants.                                                      *)
(***************************************************************************)
\* delay of handleSubmit's hide timer, in ms
ToastDelay == 3000

\* "Hi! I'm here to help you sell your software licenses. What's your question?"
Greeting ==
    <<72,105,33,32,73,39,109,32,104,101,114,101,32,116,111,32,
      104,101,108,112,32,121,111,117,32,115,101,108,108,32,121,111,
      117,114,32,115,111,102,116,119,97,114,101,32,108,105,99,101,
      110,115,101,115,46,32,87,104,97,116,39,115,32,121,111,117,
      114,32,113,117,101,115,116,105,111,110,63>>
\* "Can you clarify your question? I'm here to help!"
ClarifyReply ==
    <<67,97,110,32,121,111,117,32,99,108,97,114,105,102,121,32,
      121,111,117,114,32,113,117,101,115,116,105,111,110,63,32,73,
      39,109,32,104,101,114,101,32,116,111,32,104,101,108,112,33>>
\* "Selling is easy! Upload your license details, get a fair valuation, and receive payment within 48 hours."
ProcessReply ==
    <<83,101,108,108,105,110,103,32,105,115,32,101,97,115,121,33,
      32,85,112,108,111,97,100,32,121,111,117,114,32,108,105,99,
      101,110,115,101,32,100,101,116,97,105,108,115,44,32,103,101,
      116,32,97,32,102,97,105,114,32,118,97,108,117,97,116,105,
      111,110,44,32,97,110,100,32,114,101,99,101,105,118,101,32,
      112,97,121,109,101,110,116,32,119,105,116,104,105,110,32,52,
      56,32,104,111,117,114,115,46>>
\* "Valuations depend on the license type and market demand. Slug your license for a free quote!"
ValuationReply ==
    <<86,97,108,117,97,116,105,111,110,115,32,100,101,112,101,110,
      100,32,111,110,32,116,104,101,32,108,105,99,101,110,115,101,
      32,116,121,112,101,32,97,110,100,32,109,97,114,107,101,116,
      32,100,101,109,97,110,100,46,32,83,108,117,103,32,121,111,
      117,114,32,108,105,99,101,110,115,101,32,102,111,114,32,97,
      32,102,114,101,101,32,113,117,111,116,101,33>>
\* "All transactions are encrypted and follow strict privacy protocols."
SecurityReply ==
    <<65,108,108,32,116,114,97,110,115,97,99,116,105,111,110,115,
      32,97,114,101,32,101,110,99,114,121,112,116,101,100,32,97,
      110,100,32,102,111,108,108,111,119,32,115,116,114,105,99,116,
      32,112,114,105,118,97,99,121,32,112,114,111,116,111,99,111,
      108,115,46>>

\* "how"
KwHow == <<104,111,119>>
\* "price"
KwPrice == <<112,114,105,99,101>>
\* "cost"
KwCost == <<99,111,115,116>>
\* "safe"
KwSafe == <<115,97,102,101>>
\* "secure"
KwSecure == <<115,101,99,117,114,101>>

(***************************************************************************)
(* String primitives of the JavaScript runtime.  A string is its sequence  *)
(* of UTF-16 code units, each a number in 0..65535.                        *)
(***************************************************************************)

\* the 25 code units String.prototype.trim removes (WhiteSpace and
\* LineTerminator of ECMAScript)
WhiteSpace ==
    {9, 10, 11, 12, 13, 32, 160, 5760} \cup (8192..8202)
        \cup {8232, 8233, 8239, 8287, 12288, 65279}

\* surrogate code units D800..DBFF and DC00..DFFF
IsLeadSurrogate(u)  == u \in 55296..56319
IsTrailSurrogate(u) == u \in 56320..57343

\* s[i] is the first, or the second, code unit of a surrogate pair
IsPairLead(s, i) ==
    i < Len(s) /\ IsLeadSurrogate(s[i]) /\ IsTrailSurrogate(s[i + 1])
IsPairTrail(s, i) ==
    i > 1 /\ IsTrailSurrogate(s[i]) /\ IsLeadSurrogate(s[i - 1])

\* the code point that starts at s[i]
CodePointAt(s, i) ==
    IF IsPairLead(s, i)
    THEN 65536 + (s[i] - 55296) * 1024 + (s[i + 1] - 56320)
    ELSE s[i]

\* the two code units of a code point above FFFF
LeadUnit(c)  == 55296 + ((c - 65536) \div 1024)
TrailUnit(c) == 56320 + ((c - 65536) % 1024)

\* the indices of s at which a code point starts
CodePointStarts(s) == {i \in 1..Len(s) : ~IsPairTrail(s, i)}

InRanges(c, R) == \E r \in R : r[1] <= c /\ c <= r[2]

\* Unicode simple lower-case mappings above U+007F, as <<first, last,
\* step, offset>>: every step-th code point of first..last maps to itself
\* plus offset (Unicode 17.0; U+0130 has a two-code-point mapping and is
\* not listed)
LowerRanges ==
    { <<192,214,1,32>>, <<216,222,1,32>>, <<256,302,2,1>>,
      <<306,310,2,1>>, <<313,327,2,1>>, <<330,374,2,1>>,
      <<376,376,1,-121>>, <<377,381,2,1>>, <<385,385,1,210>>,
      <<386,388,2,1>>, <<390,390,1,206>>, <<391,391,1,1>>,
      <<393,394,1,205>>, <<395,395,1,1>>, <<398,398,1,79>>,
      <<399,399,1,202>>, <<400,400,1,203>>, <<401,401,1,1>>,
      <<403,403,1,205>>, <<404,404,1,207>>, <<406,406,1,211>>,
      <<407,407,1,209>>, <<408,408,1,1>>, <<412,412,1,211>>,
      <<413,413,1,213>>, <<415,415,1,214>>, <<416,420,2,1>>,
      <<422,422,1,218>>, <<423,423,1,1>>, <<425,425,1,218>>,
      <<428,428,1,1>>, <<430,430,1,218>>, <<431,431,1,1>>,
      <<433,434,1,217>>, <<435,437,2,1>>, <<439,439,1,219>>,
      <<440,440,1,1>>, <<444,444,1,1>>, <<452,452,1,2>>,
      <<453,453,1,1>>, <<455,455,1,2>>, <<456,456,1,1>>,
      <<458,458,1,2>>, <<459,475,2,1>>, <<478,494,2,1>>,
      <<497,497,1,2>>, <<498,500,2,1>>, <<502,502,1,-97>>,
      <<503,503,1,-56>>, <<504,542,2,1>>, <<544,544,1,-130>>,
      <<546,562,2,1>>, <<570,570,1,10795>>, <<571,571,1,1>>,
      <<573,573,1,-163>>, <<574,574,1,10792>>, <<577,577,1,1>>,
      <<579,579,1,-195>>, <<580,580,1,69>>, <<581,581,1,71>>,
      <<582,590,2,1>>, <<880,882,2,1>>, <<886,886,1,1>>,
      <<895,895,1,116>>, <<902,902,1,38>>, <<904,906,1,37>>,
      <<908,908,1,64>>, <<910,911,1,63>>, <<913,929,1,32>>,
      <<931,939,1,32>>, <<975,975,1,8>>, <<984,1006,2,1>>,
      <<1012,1012,1,-60>>, <<1015,1015,1,1>>, <<1017,1017,1,-7>>,
      <<1018,1018,1,1>>, <<1021,1023,1,-130>>, <<1024,1039,1,80>>,
      <<1040,1071,1,32>>, <<1120,1152,2,1>>, <<1162,1214,2,1>>,
      <<1216,1216,1,15>>, <<1217,1229,2,1>>, <<1232,1326,2,1>>,
      <<1329,1366,1,48>>, <<4256,4293,1,7264>>, <<4295,4295,1,7264>>,
      <<4301,4301,1,7264>>, <<5024,5103,1,38864>>, <<5104,5109,1,8>>,
      <<7305,7305,1,1>>, <<7312,7354,1,-3008>>, <<7357,7359,1,-3008>>,
      <<7680,7828,2,1>>, <<7838,7838,1,-7615>>, <<7840,7934,2,1>>,
      <<7944,7951,1,-8>>, <<7960,7965,1,-8>>, <<7976,7983,1,-8>>,
      <<7992,7999,1,-8>>, <<8008,8013,1,-8>>, <<8025,8031,2,-8>>,
      <<8040,8047,1,-8>>, <<8072,8079,1,-8>>, <<8088,8095,1,-8>>,
      <<8104,8111,1,-8>>, <<8120,8121,1,-8>>, <<8122,8123,1,-74>>,
      <<8124,8124,1,-9>>, <<8136,8139,1,-86>>, <<8140,8140,1,-9>>,
      <<8152,8153,1,-8>>, <<8154,8155,1,-100>>, <<8168,8169,1,-8>>,
      <<8170,8171,1,-112>>, <<8172,8172,1,-7>>, <<8184,8185,1,-128>>,
      <<8186,8187,1,-126>>, <<8188,8188,1,-9>>, <<8486,8486,1,-7517>>,
      <<8490,8490,1,-8383>>, <<8491,8491,1,-8262>>, <<8498,8498,1,28>>,
      <<8544,8559,1,16>>, <<8579,8579,1,1>>, <<9398,9423,1,26>>,
      <<11264,11311,1,48>>, <<11360,11360,1,1>>, <<11362,11362,1,-10743>>,
      <<11363,11363,1,-3814>>, <<11364,11364,1,-10727>>, <<11367,11371,2,1>>,
      <<11373,11373,1,-10780>>, <<11374,11374,1,-10749>>, <<11375,11375,1,-10783>>,
      <<11376,11376,1,-10782>>, <<11378,11378,1,1>>, <<11381,11381,1,1>>,
      <<11390,11391,1,-10815>>, <<11392,11490,2,1>>, <<11499,11501,2,1>>,
      <<11506,11506,1,1>>, <<42560,42604,2,1>>, <<42624,42650,2,1>>,
      <<42786,42798,2,1>>, <<42802,42862,2,1>>, <<42873,42875,2,1>>,
      <<42877,42877,1,-35332>>, <<42878,42886,2,1>>, <<42891,42891,1,1>>,
      <<42893,42893,1,-42280>>, <<42896,42898,2,1>>, <<42902,42920,2,1>>,
      <<42922,42922,1,-42308>>, <<42923,42923,1,-42319>>, <<42924,42924,1,-42315>>,
      <<42925,42925,1,-42305>>, <<42926,42926,1,-42308>>, <<42928,42928,1,-42258>>,
      <<42929,42929,1,-42282>>, <<42930,42930,1,-42261>>, <<42931,42931,1,928>>,
      <<42932,42946,2,1>>, <<42948,42948,1,-48>>, <<42949,42949,1,-42307>>,
      <<42950,42950,1,-35384>>, <<42951,42953,2,1>>, <<42955,42955,1,-42343>>,
      <<42956,42970,2,1>>, <<42972,42972,1,-42561>>, <<42997,42997,1,1>>,
      <<65313,65338,1,32>>, <<66560,66599,1,40>>, <<66736,66771,1,40>>,
      <<66928,66938,1,39>>, <<66940,66954,1,39>>, <<66956,66962,1,39>>,
      <<66964,66965,1,39>>, <<68736,68786,1,64>>, <<68944,68965,1,32>>,
      <<71840,71871,1,32>>, <<93760,93791,1,32>>, <<93856,93880,1,27>>,
      <<125184,125217,1,34>> }

\* code points with the Cased property that are not Case_Ignorable, as
\* <<first, last>> (Unicode 17.0)
CasedRanges ==
    { <<65,90>>, <<97,122>>, <<170,170>>, <<181,181>>,
      <<186,186>>, <<192,214>>, <<216,246>>, <<248,442>>,
      <<444,447>>, <<452,659>>, <<662,687>>, <<880,883>>,
      <<886,887>>, <<891,893>>, <<895,895>>, <<902,902>>,
      <<904,906>>, <<908,908>>, <<910,929>>, <<931,1013>>,
      <<1015,1153>>, <<1162,1327>>, <<1329,1366>>, <<1376,1416>>,
      <<4256,4293>>, <<4295,4295>>, <<4301,4301>>, <<4304,4346>>,
      <<4349,4351>>, <<5024,5109>>, <<5112,5117>>, <<7296,7306>>,
      <<7312,7354>>, <<7357,7359>>, <<7424,7467>>, <<7531,7543>>,
      <<7545,7578>>, <<7680,7957>>, <<7960,7965>>, <<7968,8005>>,
      <<8008,8013>>, <<8016,8023>>, <<8025,8025>>, <<8027,8027>>,
      <<8029,8029>>, <<8031,8061>>, <<8064,8116>>, <<8118,8124>>,
      <<8126,8126>>, <<8130,8132>>, <<8134,8140>>, <<8144,8147>>,
      <<8150,8155>>, <<8160,8172>>, <<8178,8180>>, <<8182,8188>>,
      <<8450,8450>>, <<8455,8455>>, <<8458,8467>>, <<8469,8469>>,
      <<8473,8477>>, <<8484,8484>>, <<8486,8486>>, <<8488,8488>>,
      <<8490,8493>>, <<8495,8500>>, <<8505,8505>>, <<8508,8511>>,
      <<8517,8521>>, <<8526,8526>>, <<8544,8575>>, <<8579,8580>>,
      <<9398,9449>>, <<11264,11387>>, <<11390,11492>>, <<11499,11502>>,
      <<11506,11507>>, <<11520,11557>>, <<11559,11559>>, <<11565,11565>>,
      <<42560,42605>>, <<42624,42651>>, <<42786,42863>>, <<42865,42887>>,
      <<42891,42894>>, <<42896,42972>>, <<42997,42998>>, <<43002,43002>>,
      <<43824,43866>>, <<43872,43880>>, <<43888,43967>>, <<64256,64262>>,
      <<64275,64279>>, <<65313,65338>>, <<65345,65370>>, <<66560,66639>>,
      <<66736,66771>>, <<66776,66811>>, <<66928,66938>>, <<66940,66954>>,
      <<66956,66962>>, <<66964,66965>>, <<66967,66977>>, <<66979,66993>>,
      <<66995,67001>>, <<67003,67004>>, <<68736,68786>>, <<68800,68850>>,
      <<68944,68965>>, <<68976,68997>>, <<71840,71903>>, <<93760,93823>>,
      <<93856,93880>>, <<93883,93907>>, <<119808,119892>>, <<119894,119964>>,
      <<119966,119967>>, <<119970,119970>>, <<119973,119974>>, <<119977,119980>>,
      <<119982,119993>>, <<119995,119995>>, <<119997,120003>>, <<120005,120069>>,
      <<120071,120074>>, <<120077,120084>>, <<120086,120092>>, <<120094,120121>>,
      <<120123,120126>>, <<120128,120132>>, <<120134,120134>>, <<120138,120144>>,
      <<120146,120485>>, <<120488,120512>>, <<120514,120538>>, <<120540,120570>>,
      <<120572,120596>>, <<120598,120628>>, <<120630,120654>>, <<120656,120686>>,
      <<120688,120712>>, <<120714,120744>>, <<120746,120770>>, <<120772,120779>>,
      <<122624,122633>>, <<122635,122654>>, <<122661,122666>>, <<125184,125251>>,
      <<127280,127305>>, <<127312,127337>>, <<127344,127369>> }

\* code points with the Case_Ignorable property, as <<first, last>>
\* (Unicode 17.0)
CaseIgnorableRanges ==
    { <<39,39>>, <<46,46>>, <<58,58>>, <<94,94>>,
      <<96,96>>, <<168,168>>, <<173,173>>, <<175,175>>,
      <<180,180>>, <<183,184>>, <<688,879>>, <<884,885>>,
      <<890,890>>, <<900,901>>, <<903,903>>, <<1155,1161>>,
      <<1369,1369>>, <<1375,1375>>, <<1425,1469>>, <<1471,1471>>,
      <<1473,1474>>, <<1476,1477>>, <<1479,1479>>, <<1524,1524>>,
      <<1536,1541>>, <<1552,1562>>, <<1564,1564>>, <<1600,1600>>,
      <<1611,1631>>, <<1648,1648>>, <<1750,1757>>, <<1759,1768>>,
      <<1770,1773>>, <<1807,1807>>, <<1809,1809>>, <<1840,1866>>,
      <<1958,1968>>, <<2027,2037>>, <<2042,2042>>, <<2045,2045>>,
      <<2070,2093>>, <<2137,2139>>, <<2184,2184>>, <<2192,2193>>,
      <<2199,2207>>, <<2249,2306>>, <<2362,2362>>, <<2364,2364>>,
      <<2369,2376>>, <<2381,2381>>, <<2385,2391>>, <<2402,2403>>,
      <<2417,2417>>, <<2433,2433>>, <<2492,2492>>, <<2497,2500>>,
      <<2509,2509>>, <<2530,2531>>, <<2558,2558>>, <<2561,2562>>,
      <<2620,2620>>, <<2625,2626>>, <<2631,2632>>, <<2635,2637>>,
      <<2641,2641>>, <<2672,2673>>, <<2677,2677>>, <<2689,2690>>,
      <<2748,2748>>, <<2753,2757>>, <<2759,2760>>, <<2765,2765>>,
      <<2786,2787>>, <<2810,2815>>, <<2817,2817>>, <<2876,2876>>,
      <<2879,2879>>, <<2881,2884>>, <<2893,2893>>, <<2901,2902>>,
      <<2914,2915>>, <<2946,2946>>, <<3008,3008>>, <<3021,3021>>,
      <<3072,3072>>, <<3076,3076>>, <<3132,3132>>, <<3134,3136>>,
      <<3142,3144>>, <<3146,3149>>, <<3157,3158>>, <<3170,3171>>,
      <<3201,3201>>, <<3260,3260>>, <<3263,3263>>, <<3270,3270>>,
      <<3276,3277>>, <<3298,3299>>, <<3328,3329>>, <<3387,3388>>,
      <<3393,3396>>, <<3405,3405>>, <<3426,3427>>, <<3457,3457>>,
      <<3530,3530>>, <<3538,3540>>, <<3542,3542>>, <<3633,3633>>,
      <<3636,3642>>, <<3654,3662>>, <<3761,3761>>, <<3764,3772>>,
      <<3782,3782>>, <<3784,3790>>, <<3864,3865>>, <<3893,3893>>,
      <<3895,3895>>, <<3897,3897>>, <<3953,3966>>, <<3968,3972>>,
      <<3974,3975>>, <<3981,3991>>, <<3993,4028>>, <<4038,4038>>,
      <<4141,4144>>, <<4146,4151>>, <<4153,4154>>, <<4157,4158>>,
      <<4184,4185>>, <<4190,4192>>, <<4209,4212>>, <<4226,4226>>,
      <<4229,4230>>, <<4237,4237>>, <<4253,4253>>, <<4348,4348>>,
      <<4957,4959>>, <<5906,5908>>, <<5938,5939>>, <<5970,5971>>,
      <<6002,6003>>, <<6068,6069>>, <<6071,6077>>, <<6086,6086>>,
      <<6089,6099>>, <<6103,6103>>, <<6109,6109>>, <<6155,6159>>,
      <<6211,6211>>, <<6277,6278>>, <<6313,6313>>, <<6432,6434>>,
      <<6439,6440>>, <<6450,6450>>, <<6457,6459>>, <<6679,6680>>,
      <<6683,6683>>, <<6742,6742>>, <<6744,6750>>, <<6752,6752>>,
      <<6754,6754>>, <<6757,6764>>, <<6771,6780>>, <<6783,6783>>,
      <<6823,6823>>, <<6832,6877>>, <<6880,6891>>, <<6912,6915>>,
      <<6964,6964>>, <<6966,6970>>, <<6972,6972>>, <<6978,6978>>,
      <<7019,7027>>, <<7040,7041>>, <<7074,7077>>, <<7080,7081>>,
      <<7083,7085>>, <<7142,7142>>, <<7144,7145>>, <<7149,7149>>,
      <<7151,7153>>, <<7212,7219>>, <<7222,7223>>, <<7288,7293>>,
      <<7376,7378>>, <<7380,7392>>, <<7394,7400>>, <<7405,7405>>,
      <<7412,7412>>, <<7416,7417>>, <<7468,7530>>, <<7544,7544>>,
      <<7579,7679>>, <<8125,8125>>, <<8127,8129>>, <<8141,8143>>,
      <<8157,8159>>, <<8173,8175>>, <<8189,8190>>, <<8203,8207>>,
      <<8216,8217>>, <<8228,8228>>, <<8231,8231>>, <<8234,8238>>,
      <<8288,8292>>, <<8294,8303>>, <<8305,8305>>, <<8319,8319>>,
      <<8336,8348>>, <<8400,8432>>, <<11388,11389>>, <<11503,11505>>,
      <<11631,11631>>, <<11647,11647>>, <<11744,11775>>, <<11823,11823>>,
      <<12293,12293>>, <<12330,12333>>, <<12337,12341>>, <<12347,12347>>,
      <<12441,12446>>, <<12540,12542>>, <<40981,40981>>, <<42232,42237>>,
      <<42508,42508>>, <<42607,42610>>, <<42612,42621>>, <<42623,42623>>,
      <<42652,42655>>, <<42736,42737>>, <<42752,42785>>, <<42864,42864>>,
      <<42888,42890>>, <<42993,42996>>, <<43000,43001>>, <<43010,43010>>,
      <<43014,43014>>, <<43019,43019>>, <<43045,43046>>, <<43052,43052>>,
      <<43204,43205>>, <<43232,43249>>, <<43263,43263>>, <<43302,43309>>,
      <<43335,43345>>, <<43392,43394>>, <<43443,43443>>, <<43446,43449>>,
      <<43452,43453>>, <<43471,43471>>, <<43493,43494>>, <<43561,43566>>,
      <<43569,43570>>, <<43573,43574>>, <<43587,43587>>, <<43596,43596>>,
      <<43632,43632>>, <<43644,43644>>, <<43696,43696>>, <<43698,43700>>,
      <<43703,43704>>, <<43710,43711>>, <<43713,43713>>, <<43741,43741>>,
      <<43756,43757>>, <<43763,43764>>, <<43766,43766>>, <<43867,43871>>,
      <<43881,43883>>, <<44005,44005>>, <<44008,44008>>, <<44013,44013>>,
      <<64286,64286>>, <<64434,64450>>, <<65024,65039>>, <<65043,65043>>,
      <<65056,65071>>, <<65106,65106>>, <<65109,65109>>, <<65279,65279>>,
      <<65287,65287>>, <<65294,65294>>, <<65306,65306>>, <<65342,65342>>,
      <<65344,65344>>, <<65392,65392>>, <<65438,65439>>, <<65507,65507>>,
      <<65529,65531>>, <<66045,66045>>, <<66272,66272>>, <<66422,66426>>,
      <<67456,67461>>, <<67463,67504>>, <<67506,67514>>, <<68097,68099>>,
      <<68101,68102>>, <<68108,68111>>, <<68152,68154>>, <<68159,68159>>,
      <<68325,68326>>, <<68900,68903>>, <<68942,68942>>, <<68969,68973>>,
      <<68975,68975>>, <<69291,69292>>, <<69317,69317>>, <<69370,69375>>,
      <<69446,69456>>, <<69506,69509>>, <<69633,69633>>, <<69688,69702>>,
      <<69744,69744>>, <<69747,69748>>, <<69759,69761>>, <<69811,69814>>,
      <<69817,69818>>, <<69821,69821>>, <<69826,69826>>, <<69837,69837>>,
      <<69888,69890>>, <<69927,69931>>, <<69933,69940>>, <<70003,70003>>,
      <<70016,70017>>, <<70070,70078>>, <<70089,70092>>, <<70095,70095>>,
      <<70191,70193>>, <<70196,70196>>, <<70198,70199>>, <<70206,70206>>,
      <<70209,70209>>, <<70367,70367>>, <<70371,70378>>, <<70400,70401>>,
      <<70459,70460>>, <<70464,70464>>, <<70502,70508>>, <<70512,70516>>,
      <<70587,70592>>, <<70606,70606>>, <<70608,70608>>, <<70610,70610>>,
      <<70625,70626>>, <<70712,70719>>, <<70722,70724>>, <<70726,70726>>,
      <<70750,70750>>, <<70835,70840>>, <<70842,70842>>, <<70847,70848>>,
      <<70850,70851>>, <<71090,71093>>, <<71100,71101>>, <<71103,71104>>,
      <<71132,71133>>, <<71219,71226>>, <<71229,71229>>, <<71231,71232>>,
      <<71339,71339>>, <<71341,71341>>, <<71344,71349>>, <<71351,71351>>,
      <<71453,71453>>, <<71455,71455>>, <<71458,71461>>, <<71463,71467>>,
      <<71727,71735>>, <<71737,71738>>, <<71995,71996>>, <<71998,71998>>,
      <<72003,72003>>, <<72148,72151>>, <<72154,72155>>, <<72160,72160>>,
      <<72193,72202>>, <<72243,72248>>, <<72251,72254>>, <<72263,72263>>,
      <<72273,72278>>, <<72281,72283>>, <<72330,72342>>, <<72344,72345>>,
      <<72544,72544>>, <<72546,72548>>, <<72550,72550>>, <<72752,72758>>,
      <<72760,72765>>, <<72767,72767>>, <<72850,72871>>, <<72874,72880>>,
      <<72882,72883>>, <<72885,72886>>, <<73009,73014>>, <<73018,73018>>,
      <<73020,73021>>, <<73023,73029>>, <<73031,73031>>, <<73104,73105>>,
      <<73109,73109>>, <<73111,73111>>, <<73177,73177>>, <<73459,73460>>,
      <<73472,73473>>, <<73526,73530>>, <<73536,73536>>, <<73538,73538>>,
      <<73562,73562>>, <<78896,78912>>, <<78919,78933>>, <<90398,90409>>,
      <<90413,90415>>, <<92912,92916>>, <<92976,92982>>, <<92992,92995>>,
      <<93504,93506>>, <<93547,93548>>, <<94031,94031>>, <<94095,94111>>,
      <<94176,94177>>, <<94179,94180>>, <<94194,94195>>, <<110576,110579>>,
      <<110581,110587>>, <<110589,110590>>, <<113821,113822>>, <<113824,113827>>,
      <<118528,118573>>, <<118576,118598>>, <<119143,119145>>, <<119155,119170>>,
      <<119173,119179>>, <<119210,119213>>, <<119362,119364>>, <<121344,121398>>,
      <<121403,121452>>, <<121461,121461>>, <<121476,121476>>, <<121499,121503>>,
      <<121505,121519>>, <<122880,122886>>, <<122888,122904>>, <<122907,122913>>,
      <<122915,122916>>, <<122918,122922>>, <<122928,122989>>, <<123023,123023>>,
      <<123184,123197>>, <<123566,123566>>, <<123628,123631>>, <<124139,124143>>,
      <<124398,124399>>, <<124643,124643>>, <<124646,124646>>, <<124654,124655>>,
      <<124661,124661>>, <<124671,124671>>, <<125136,125142>>, <<125252,125259>>,
      <<127995,127999>>, <<917505,917505>>, <<917536,917631>>, <<917760,917999>> }

IsCased(c) == InRanges(c, CasedRanges)
IsCaseIgnorable(c) == InRanges(c, CaseIgnorableRanges)

\* the lower-case code point of a code point, context aside
LowerCodePoint(c) ==
    IF c < 128
    THEN (IF c \in 65..90 THEN c + 32 ELSE c)
    ELSE IF \E r \in LowerRanges :
                r[1] <= c /\ c <= r[2] /\ (c - r[1]) % r[3] = 0
         THEN c + (CHOOSE r \in LowerRanges :
                      r[1] <= c /\ c <= r[2] /\ (c - r[1]) % r[3] = 0)[4]
         ELSE c

\* Final_Sigma of Unicode: the code point at s[i] follows a cased letter,
\* case-ignorable code points aside, and is not followed by one
FinalSigma(s, i) ==
    /\ \E j \in CodePointStarts(s) :
          /\ j < i
          /\ IsCased(CodePointAt(s, j))
          /\ \A k \in CodePointStarts(s) :
                (j < k /\ k < i) => IsCaseIgnorable(CodePointAt(s, k))
    /\ ~\E j \in CodePointStarts(s) :
          /\ j > i
          /\ IsCased(CodePointAt(s, j))
          /\ \A k \in CodePointStarts(s) :
                (i < k /\ k < j) => IsCaseIgnorable(CodePointAt(s, k))

\* the code units s[i] becomes in the lower-cased string: U+0130 becomes
\* U+0069 U+0307, U+03A3 becomes U+03C2 where final and U+03C3 elsewhere
LowerUnitsAt(s, i) ==
    IF IsPairTrail(s, i)
    THEN <<TrailUnit(LowerCodePoint(CodePointAt(s, i - 1)))>>
    ELSE IF IsPairLead(s, i)
    THEN <<LeadUnit(LowerCodePoint(CodePointAt(s, i)))>>
    ELSE IF s[i] = 304 THEN <<105, 775>>
    ELSE IF s[i] = 931 THEN (IF FinalSigma(s, i) THEN <<962>> ELSE <<963>>)
    ELSE <<LowerCodePoint(s[i])>>

\* the index at which the lower-cased form of s[i] starts: every U+0130
\* before it has added one code unit
LowerStart(s, i) == i + Cardinality({j \in 1..(i - 1) : s[j] = 304})

\* a plausible slip: the comparison is made on the raw text
ToLowerCaseRaw(s) == s

\* String.prototype.toLowerCase
ToLowerCase(s) ==
    IF \A j \in 1..Len(s) : s[j] # 304
    THEN [i \in 1..Len(s) |-> LowerUnitsAt(s, i)[1]]
    ELSE [k \in 1..(LowerStart(s, Len(s) + 1) - 1) |->
            LET i == CHOOSE i \in 1..Len(s) :
                        /\ LowerStart(s, i) <= k
                        /\ k < LowerStart(s, i + 1)
            IN  LowerUnitsAt(s, i)[k - LowerStart(s, i) + 1]]

\* String.prototype.includes (str is the receiver, evaluated once)
Includes(s, sub) ==
    \E str \in {s} :
        \E i \in 1..(Len(str) - Len(sub) + 1) :
            SubSeq(str, i, i + Len(sub) - 1) = sub

SetMin(S) == CHOOSE x \in S : \A y \in S : x <= y
SetMax(S) == CHOOSE x \in S : \A y \in S : x >= y

\* a plausible slip: the raw text is tested for emptiness
TrimNothing(s) == s

\* String.prototype.trim
Trim(s) ==
    LET keep == {i \in 1..Len(s) : s[i] \notin WhiteSpace}
    IN  IF keep = {} THEN <<>> ELSE SubSeq(s, SetMin(keep), SetMax(keep))

(***************************************************************************)
(* Values the handlers are exercised with.                                 *)
(***************************************************************************)
\* "", "   ", <space, U+00A0, U+3000, tab>, "What's the price?",
\* "Is this Safe?", "asdf", "So, HOW safe is the Price?", " secure COST "
Utterances ==
    { <<>>,
      <<32,32,32>>,
      <<32,160,12288,9>>,
      <<87,104,97,116,39,115,32,116,104,101,32,112,114,105,99,101,63>>,
      <<73,115,32,116,104,105,115,32,83,97,102,101,63>>,
      <<97,115,100,102>>,
      <<83,111,44,32,72,79,87,32,115,97,102,101,32,105,115,32,116,104,101,32,80,114,105,99,101,63>>,
      <<32,115,101,99,117,114,101,32,67,79,83,84,32>> }

FormFields == {"name", "email", "company", "licenseType", "message"}
RequiredFields == {"name", "email", "licenseType", "message"}

FieldValues(f) ==
    CASE f = "name"        -> {"", "Ann"}
      [] f = "email"       -> {"", "ann@example.com"}
      [] f = "company"     -> {"", "Acme"}
      [] f = "licenseType" -> {"", "Windows"}
      [] f = "message"     -> {"", "Two Office 365 seats"}

EmptyForm == [name |-> "", email |-> "", company |-> "", licenseType |-> "", message |-> ""]

(***************************************************************************)
(* Chatbot                                                                 *)
(***************************************************************************)
UserTurn(t) == [text |-> t, sender |-> "user"]
BotTurn(t)  == [text |-> t, sender |-> "bot"]

InitMessages == <<BotTurn(Greeting)>>

UserCount(msgs) == Cardinality({i \in 1..Len(msgs) : msgs[i].sender = "user"})
BotCount(msgs)  == Cardinality({i \in 1..Len(msgs) : msgs[i].sender = "bot"})

\* a plausible slip: the fallback repeats the greeting
ResponseGreetingFallback(captured) ==
    IF Includes(ToLowerCase(captured), KwHow) THEN ProcessReply
    ELSE IF Includes(ToLowerCase(captured), KwPrice)
            \/ Includes(ToLowerCase(captured), KwCost) THEN ValuationReply
    ELSE IF Includes(ToLowerCase(captured), KwSafe)
            \/ Includes(ToLowerCase(captured), KwSecure) THEN SecurityReply
    ELSE Greeting

\* a plausible slip: the reply depends on whether the window is open
ResponseStateful(captured) ==
    IF ~isOpen THEN ClarifyReply
    ELSE IF Includes(ToLowerCase(captured), KwHow) THEN ProcessReply
    ELSE IF Includes(ToLowerCase(captured), KwPrice)
            \/ Includes(ToLowerCase(captured), KwCost) THEN ValuationReply
    ELSE IF Includes(ToLowerCase(captured), KwSafe)
            \/ Includes(ToLowerCase(captured), KwSecure) THEN SecurityReply
    ELSE ClarifyReply

\* the response the deferred callback computes from the captured input
Response(captured) ==
    IF Includes(ToLowerCase(captured), KwHow) THEN ProcessReply
    ELSE IF Includes(ToLowerCase(captured), KwPrice)
            \/ Includes(ToLowerCase(captured), KwCost) THEN ValuationReply
    ELSE IF Includes(ToLowerCase(captured), KwSafe)
            \/ Includes(ToLowerCase(captured), KwSecure) THEN SecurityReply
    ELSE ClarifyReply

\* onChange of the chat text field: setInput(e.target.value)
SetInput ==
    /\ isOpen
    /\ \E v \in Utterances : v # input /\ input' = v
    /\ lastEvent' = "setInput"
    /\ UNCHANGED <<isOpen, messages, pending>>
    /\ UNCHANGED appVars

\* a plausible slip: a new submission cancels the reply still pending
HandleSendDebounced ==
    /\ isOpen
    /\ lastEvent' = "handleSend"
    /\ IF Trim(input) = <<>>
       THEN UNCHANGED <<messages, pending, input>>
       ELSE /\ UserCount(messages) < MaxUserTurns
            /\ messages' = Append(messages, UserTurn(input))
            /\ pending' = <<input>>
            /\ input' = <<>>
    /\ UNCHANGED isOpen
    /\ UNCHANGED appVars

\* onSubmit of the chat form: handleSend
HandleSend ==
    /\ isOpen
    /\ lastEvent' = "handleSend"
    /\ IF Trim(input) = <<>>
       THEN UNCHANGED <<messages, pending, input>>
       ELSE /\ UserCount(messages) < MaxUserTurns
            /\ messages' = Append(messages, UserTurn(input))
            /\ pending' = Append(pending, input)
            /\ input' = <<>>
    /\ UNCHANGED isOpen
    /\ UNCHANGED appVars

\* a plausible slip: the callback appends to the history it captured when
\* it was scheduled, which lacks the turn appended last
BotReplyStale ==
    /\ pending # <<>>
    /\ pending' = Tail(pending)
    /\ messages' = Append(SubSeq(messages, 1, Len(messages) - 1),
                          BotTurn(Response(Head(pending))))
    /\ lastEvent' = "botReply"
    /\ UNCHANGED <<isOpen, input>>
    /\ UNCHANGED appVars

\* a plausible slip: the callback reads the text field when it runs
BotReplyReadsField ==
    /\ pending # <<>>
    /\ pending' = Tail(pending)
    /\ messages' = Append(messages, BotTurn(Response(input)))
    /\ lastEvent' = "botReply"
    /\ UNCHANGED <<isOpen, input>>
    /\ UNCHANGED appVars

\* the callback handleSend passed to setTimeout(..., 600); timers of equal
\* delay run in the order they were set
BotReply ==
    /\ pending # <<>>
    /\ pending' = Tail(pending)
    /\ messages' = Append(messages, BotTurn(Response(Head(pending))))
    /\ lastEvent' = "botReply"
    /\ UNCHANGED <<isOpen, input>>
    /\ UNCHANGED appVars

\* a plausible slip: closing the window drops the text typed so far
ToggleOpenClearsField ==
    /\ isOpen' = ~isOpen
    /\ input' = (IF isOpen THEN <<>> ELSE input)
    /\ lastEvent' = "toggleOpen"
    /\ UNCHANGED <<messages, pending>>
    /\ UNCHANGED appVars

\* onClick of the floating button: setIsOpen(!isOpen)
ToggleOpen ==
    /\ isOpen' = ~isOpen
    /\ lastEvent' = "toggleOpen"
    /\ UNCHANGED <<messages, input, pending>>
    /\ UNCHANGED appVars

(***************************************************************************)
(* App                                                                     *)
(***************************************************************************)
\* a plausible slip: the toggle only ever switches to dark
ToggleThemeDarkOnly ==
    /\ theme' = "dark"
    /\ lastEvent' = "toggleTheme"
    /\ UNCHANGED <<showToast, formData, toastTimers, sinceSubmit>>
    /\ UNCHANGED chatVars

\* toggleTheme
ToggleTheme ==
    /\ theme' = (IF theme = "light" THEN "dark" ELSE "light")
    /\ lastEvent' = "toggleTheme"
    /\ UNCHANGED <<showToast, formData, toastTimers, sinceSubmit>>
    /\ UNCHANGED chatVars

\* handleInputChange
HandleInputChange ==
    /\ \E f \in FormFields : \E v \in FieldValues(f) :
          /\ v # formData[f]
          /\ formData' = [formData EXCEPT ![f] = v]
    /\ lastEvent' = "handleInputChange"
    /\ UNCHANGED <<theme, showToast, toastTimers, sinceSubmit>>
    /\ UNCHANGED chatVars

\* a plausible slip: the reset leaves the message field out
HandleSubmitKeepsMessage ==
    /\ \A f \in RequiredFields : formData[f] # ""
    /\ Len(toastTimers) < MaxToastTimers
    /\ showToast' = TRUE
    /\ formData' = [EmptyForm EXCEPT !.message = formData.message]
    /\ toastTimers' = Append(toastTimers, ToastDelay)
    /\ sinceSubmit' = 0
    /\ lastEvent' = "handleSubmit"
    /\ UNCHANGED theme
    /\ UNCHANGED chatVars

\* handleSubmit; the browser raises the submit event only when every
\* `required` control is filled
HandleSubmit ==
    /\ \A f \in RequiredFields : formData[f] # ""
    /\ Len(toastTimers) < MaxToastTimers
    /\ showToast' = TRUE
    /\ formData' = EmptyForm
    /\ toastTimers' = Append(toastTimers, ToastDelay)
    /\ sinceSubmit' = 0
    /\ lastEvent' = "handleSubmit"
    /\ UNCHANGED theme
    /\ UNCHANGED chatVars

\* the callback handleSubmit passed to setTimeout(..., 3000)
HideToastTimer ==
    /\ toastTimers # <<>>
    /\ Head(toastTimers) = 0
    /\ showToast' = FALSE
    /\ toastTimers' = Tail(toastTimers)
    /\ lastEvent' = "hideToastTimer"
    /\ UNCHANGED <<theme, formData, sinceSubmit>>
    /\ UNCHANGED chatVars

\* onClose of the Toast (its close button or its own autohide)
ToastOnClose ==
    /\ showToast
    /\ showToast' = FALSE
    /\ lastEvent' = "toastOnClose"
    /\ UNCHANGED <<theme, formData, toastTimers, sinceSubmit>>
    /\ UNCHANGED chatVars

\* time passes, never beyond the deadline of a timer that has not run yet
Tick ==
    /\ \E d \in {TickStep} \cup {toastTimers[i] : i \in 1..Len(toastTimers)} :
          /\ d >= 1
          /\ \A i \in 1..Len(toastTimers) : d <= toastTimers[i]
          /\ toastTimers' = [i \in 1..Len(toastTimers) |-> toastTimers[i] - d]
          /\ sinceSubmit' = IF sinceSubmit + d > ToastDelay THEN ToastDelay
                            ELSE sinceSubmit + d
    /\ lastEvent' = "tick"
    /\ UNCHANGED <<theme, showToast, formData>>
    /\ UNCHANGED chatVars

(***************************************************************************)
(* Specifications                                                          *)
(***************************************************************************)
Init ==
    /\ isOpen = FALSE
    /\ messages = InitMessages
    /\ input = <<>>
    /\ pending = <<>>
    /\ theme = "light"
    /\ showToast = FALSE
    /\ formData = EmptyForm
    /\ toastTimers = <<>>
    /\ sinceSubmit = ToastDelay
    /\ lastEvent = "init"

Next == SetInput \/ HandleSend \/ BotReply \/ ToggleOpen

NextApp == ToggleTheme \/ HandleInputChange \/ HandleSubmit
              \/ HideToastTimer \/ ToastOnClose \/ Tick

Spec == Init /\ [][Next]_vars

\* a timer that has been set runs
FairSpec == Spec /\ WF_vars(BotReply)

SpecApp == Init /\ [][NextApp]_vars

\* time passes and a timer that is due runs
FairSpecApp == SpecApp /\ WF_vars(Tick) /\ WF_vars(HideToastTimer)

(***************************************************************************)
(* Properties                                                              *)
(***************************************************************************)
IsUser(m) == m.sender = "user"
IsBot(m)  == m.sender = "bot"

\* texts of the user turns, and of the bot turns after the greeting, in order
UserTexts == [k \in 1..Len(SelectSeq(messages, IsUser)) |->
                 SelectSeq(messages, IsUser)[k].text]
BotTexts  == [k \in 1..Len(SelectSeq(Tail(messages), IsBot)) |->
                 SelectSeq(Tail(messages), IsBot)[k].text]

SameLetter(a, b) ==
    a = b \/ (b \in 97..122 /\ a = b - 32)

\* kw occurs in u at some position, letter case ignored
ContainsIgnoringCase(u, kw) ==
    \E off \in 0..(Len(u) - Len(kw)) :
        \A j \in 1..Len(kw) : SameLetter(u[off + j], kw[j])

\* the ordered reply table of the specification
TableReply(u) ==
    CASE ContainsIgnoringCase(u, KwHow) -> ProcessReply
      [] ~ContainsIgnoringCase(u, KwHow)
         /\ (ContainsIgnoringCase(u, KwPrice) \/ ContainsIgnoringCase(u, KwCost))
            -> ValuationReply
      [] ~ContainsIgnoringCase(u, KwHow)
         /\ ~ContainsIgnoringCase(u, KwPrice) /\ ~ContainsIgnoringCase(u, KwCost)
         /\ (ContainsIgnoringCase(u, KwSafe) \/ ContainsIgnoringCase(u, KwSecure))
            -> SecurityReply
      [] OTHER -> ClarifyReply

IsBlank(u) == \A i \in 1..Len(u) : u[i] \in WhiteSpace

IsPrefix(s, t) == Len(s) <= Len(t) /\ \A i \in 1..Len(s) : s[i] = t[i]

\* C1: whenever a deferred reply callback runs, the bot turn it appends is
\* the ordered table's reply for the utterance the callback was set for:
\* "how" first, then "price"/"cost", then "safe"/"secure", else the
\* clarification, matched anywhere in the text and in any letter case.
C1_ReplyFollowsTable ==
    [][(lastEvent' = "botReply" /\ Len(messages') > Len(messages))
         => messages'[Len(messages')] = BotTurn(TableReply(Head(pending)))]_vars

\* an utterance with an upper-case "HOW", "safe" and "Price" has been
\* answered with the process reply, and one with "secure" and "COST" with
\* the valuation reply
C1_Witness ==
    /\ Len(BotTexts) = 2
    /\ ContainsIgnoringCase(UserTexts[1], KwHow)
    /\ ContainsIgnoringCase(UserTexts[1], KwPrice)
    /\ ContainsIgnoringCase(UserTexts[1], KwSafe)
    /\ ~Includes(UserTexts[1], KwHow)
    /\ BotTexts[1] = ProcessReply
    /\ ContainsIgnoringCase(UserTexts[2], KwSecure)
    /\ ContainsIgnoringCase(UserTexts[2], KwCost)
    /\ BotTexts[2] = ValuationReply

\* C2: a handleSend on an empty or white-space-only text field records no
\* turn and schedules no reply.
C2_BlankSubmissionIgnored ==
    [][(lastEvent' = "handleSend" /\ IsBlank(input))
         => (messages' = messages /\ pending' = pending)]_vars

\* handleSend has just run on a field holding three spaces, after an
\* earlier accepted submission
C2_Witness ==
    /\ lastEvent = "handleSend"
    /\ input = <<32, 32, 32>>
    /\ Len(messages) > 1

\* C3: the history only grows at its end: each step keeps the previous
\* history as a prefix, and the greeting stays the first turn.
C3_HistoryAppendOnly ==
    /\ messages[1] = BotTurn(Greeting)
    /\ [][IsPrefix(messages, messages') /\ messages'[1] = BotTurn(Greeting)]_vars

\* a reply has been appended behind two user turns while the window is closed
C3_Witness ==
    /\ Len(messages) >= 4
    /\ lastEvent = "botReply"
    /\ ~isOpen

\* C4: an accepted submission appends one user turn and sets one timer; a
\* timer's run appends one bot turn; bot turns = 1 + user turns - pending
\* timers in every state (so bot turns = user turns + 1 once none is
\* pending); and the k-th user turn is eventually followed by its bot turn.
C4_OneReplyPerSubmission ==
    /\ [](BotCount(messages) = 1 + UserCount(messages) - Len(pending))
    /\ [][(lastEvent' = "handleSend" /\ ~IsBlank(input))
            => /\ messages' = Append(messages, UserTurn(input))
               /\ Len(pending') = Len(pending) + 1]_vars
    /\ [][lastEvent' = "botReply"
            => /\ Len(messages') = Len(messages) + 1
               /\ messages'[Len(messages')].sender = "bot"
               /\ SubSeq(messages', 1, Len(messages)) = messages
               /\ Len(pending') = Len(pending) - 1]_vars
    /\ \A k \in 1..MaxUserTurns :
          (UserCount(messages) >= k) ~> (BotCount(messages) >= k + 1)

\* two submissions were made before any reply ran, and both replies have run
C4_Witness ==
    /\ Len(messages) = 5
    /\ messages[2].sender = "user" /\ messages[3].sender = "user"
    /\ messages[4].sender = "bot" /\ messages[5].sender = "bot"
    /\ pending = <<>>

\* C5: every bot turn after the greeting carries one of the four fixed
\* replies.
C5_BotTurnsAreFixedReplies ==
    \A i \in 2..Len(messages) :
        messages[i].sender = "bot"
            => messages[i].text \in {ProcessReply, ValuationReply,
                                     SecurityReply, ClarifyReply}

\* an utterance matching no keyword has been answered with the clarification
C5_Witness ==
    /\ Len(BotTexts) >= 1
    /\ UserTexts[1] = <<97, 115, 100, 102>>
    /\ BotTexts[1] = ClarifyReply

\* C6: two submissions of the same utterance get the same reply, whatever
\* the window, the field and the history held when they were made and when
\* their replies ran.
C6_SameUtteranceSameReply ==
    \A j, k \in 1..Len(BotTexts) :
        UserTexts[j] = UserTexts[k] => BotTexts[j] = BotTexts[k]

\* the same utterance was submitted twice and answered twice, the second
\* reply running with the window closed and other text in the field
C6_Witness ==
    /\ Len(BotTexts) = 2
    /\ UserTexts[1] = UserTexts[2]
    /\ BotTexts[1] = ProcessReply
    /\ lastEvent = "botReply"
    /\ ~isOpen
    /\ input # <<>>

\* C7: right after handleSubmit the five form fields are empty and the
\* toast is shown; with no hide timer pending the toast is hidden; a shown
\* toast is eventually hidden.
C7_SubmitResetsAndToastHides ==
    /\ [](lastEvent = "handleSubmit"
            => /\ formData.name = "" /\ formData.email = ""
               /\ formData.company = "" /\ formData.licenseType = ""
               /\ formData.message = ""
               /\ showToast)
    /\ []((toastTimers = <<>>) => ~showToast)
    /\ showToast ~> ~showToast

\* a second submission has just been made while the first one's hide timer
\* is still pending
C7_Witness ==
    /\ lastEvent = "handleSubmit"
    /\ Len(toastTimers) = 2
    /\ toastTimers[1] < ToastDelay

\* C8: the theme starts light, is always light or dark, and a toggle
\* switches it to the other value (so that two toggles in a row restore it)
\* and leaves the form data and the toast alone.
C8_ThemeToggle ==
    /\ theme = "light"
    /\ [](theme \in {"light", "dark"})
    /\ [][lastEvent' = "toggleTheme"
            => /\ theme' = (IF theme = "light" THEN "dark" ELSE "light")
               /\ theme' # theme
               /\ formData' = formData
               /\ showToast' = showToast]_vars

\* the theme has been toggled back to light with the form partly filled
\* and the toast shown
C8_Witness ==
    /\ lastEvent = "toggleTheme"
    /\ theme = "light"
    /\ showToast
    /\ formData # EmptyForm

\* C9: a run of handleSubmit's hide timer hides the toast no earlier than
\* 3 seconds after the latest submission.
C9_ToastShownFullDelay ==
    [][(lastEvent' = "hideToastTimer" /\ showToast /\ ~showToast')
         => sinceSubmit >= ToastDelay]_vars

\* C10: the k-th bot turn after the greeting is the table's reply for the
\* text of the k-th user turn, whatever the field holds when the reply runs
\* and however submissions and replies interleave.
C10_RepliesInSubmissionOrder ==
    \A k \in 1..Len(BotTexts) : BotTexts[k] = TableReply(UserTexts[k])

\* history user, user, bot, bot with two different replies, the field
\* holding yet another text that would get a third reply
C10_Witness ==
    /\ Len(messages) = 5
    /\ messages[2].sender = "user" /\ messages[3].sender = "user"
    /\ messages[4].text = ProcessReply
    /\ messages[5].text = SecurityReply
    /\ TableReply(input) = ValuationReply

\* C11: frame of the chatbot handlers. An accepted handleSend empties the
\* text field and keeps the window state; a rejected one keeps the field,
\* the history and the window state; a click on the toggle button flips
\* the window state and keeps the history, the field and the pending
\* timers; a timer's callback that runs while the window is closed still
\* appends its bot turn.
C11_ChatbotFrame ==
    [][/\ (lastEvent' = "handleSend" /\ ~IsBlank(input))
            => (input' = <<>> /\ isOpen' = isOpen)
       /\ (lastEvent' = "handleSend" /\ IsBlank(input))
            => (input' = input /\ messages' = messages /\ isOpen' = isOpen)
       /\ (lastEvent' = "toggleOpen")
            => /\ isOpen' = ~isOpen
               /\ messages' = messages
               /\ input' = input
               /\ pending' = pending
       /\ (lastEvent' = "botReply" /\ ~isOpen)
            => /\ ~isOpen'
               /\ Len(messages') = Len(messages) + 1
               /\ messages'[Len(messages')].sender = "bot"]_vars

\* the window was closed with a reply pending and text in the field; the
\* reply has been appended while it is closed and the text is still there
C11_Witness ==
    /\ lastEvent = "botReply"
    /\ ~isOpen
    /\ Len(messages) = 3
    /\ pending = <<>>
    /\ input = <<97, 115, 100, 102>>

====
